---------------------------- MODULE Spec2Model ----------------------------
(***************************************************************************)
(* Token Space Colonization server (space_colonization/backend/server.py). *)
(*                                                                         *)
(* The model covers the oracle client (get_token_alternatives and          *)
(* extract_alternatives), the recursive tree builder (build_token_tree)    *)
(* and the websocket handler (websocket_endpoint), one coroutine per       *)
(* connection.  A handler step is the code between two awaits of a worker  *)
(* call; the worker running build_token_tree advances one oracle call at a *)
(* time.                                                                   *)
(*                                                                         *)
(* Strings are TLA+ strings, concatenated with \o as Python's + does.      *)
(* Probabilities are kept in thousandths (1.0 is 1000).                    *)
(***************************************************************************)
EXTENDS Integers, Sequences, FiniteSets, TLC

(***************************************************************************)
(* Bounds of the model.                                                    *)
(***************************************************************************)
\* largest "count" / "n_alternatives" a client asks for, and largest width
\* in a "branches" list
MaxCount == 3
\* longest "branches" list a client sends
MaxBranchPoints == 2
\* largest "max_depth" a client asks for
MaxTreeDepth == 2
\* longest top_logprobs list the oracle reports
MaxTop == 2
\* requests the clients send in one behaviour of the session protocol
MaxRequests == 2

(***************************************************************************)
(* Program constants.                                                      *)
(***************************************************************************)
MAX_DEPTH == 6
\* TOKENS_PER_NODE = (5, 12) in the source; the model keeps the inclusive
\* range and scales it to (1, 2) so that the trees stay enumerable.
TOKENS_PER_NODE == <<1, 2>>
DEFAULT_PROMPT == "Once upon a time"
ROOT_TOKEN == "[ROOT]"

\* Python's None (json null), as returned by build_token_tree.
None == [none |-> TRUE]

\* The placeholder entry {"token": "?", "prob": 0.0}.
Placeholder == [token |-> "?", prob |-> 0]

(***************************************************************************)
(* Python helpers.                                                         *)
(***************************************************************************)
Min(a, b) == IF a <= b THEN a ELSE b
Max(a, b) == IF a >= b THEN a ELSE b

\* seq[:n]
PySlice(seq, n) ==
    IF n >= 0 THEN SubSeq(seq, 1, Min(n, Len(seq)))
    ELSE SubSeq(seq, 1, Max(Len(seq) + n, 0))

\* dict.get(key, default)
Get(d, key, default) == IF key \in DOMAIN d THEN d[key] ELSE default

\* JSON is untyped: a field can carry a string where the handler goes on to
\* use an integer.  Such a request names the field in "mistyped"; the
\* integer kept under the field's name is then not the client's value.
Mistyped(d, key) == "mistyped" \in DOMAIN d /\ key \in d.mistyped

\* sum(list)
RECURSIVE PySum(_)
PySum(seq) == IF seq = <<>> THEN 0 ELSE Head(seq) + PySum(Tail(seq))

\* sequences over S of length at most n
SeqUpTo(S, n) == UNION {[1..k -> S] : k \in 0..n}

(***************************************************************************)
(* The oracle (llama.cpp /completion) and the oracle client.               *)
(***************************************************************************)
\* Token strings the oracle reports.  "?" is a token a model can emit; it
\* is also the token of the placeholder.
Tokens == {"a", "?"}

\* Log-probabilities the oracle reports.
Logprobs == {-1}

\* 2.71828 ** logprob, in thousandths.
Prob(logprob) ==
    CASE logprob = 0 -> 1000
      [] logprob = -1 -> 368
      [] logprob = -2 -> 135
      [] OTHER -> 0

TopEntries == [token : Tokens, logprob : Logprobs]

\* data['completion_probabilities'][0] for a request with "n_probs": n; the
\* oracle reports at most n top_logprobs entries
TokenData(n) ==
    [token : Tokens, logprob : Logprobs,
     top_logprobs : SeqUpTo(TopEntries, Min(n, MaxTop))]

\* as extract_alternatives, but it returns "alternatives", not
\* "alternatives[:n_alternatives]"
Mut_extract_alternatives_unsliced(token_data, n_alternatives) ==
    LET selected == [token |-> token_data.token, prob |-> Prob(token_data.logprob)]
        top == PySlice(token_data.top_logprobs, n_alternatives)
        NotSelected(alt) == alt.token # token_data.token
        kept == SelectSeq(top, NotSelected)
        others == [i \in 1..Len(kept) |->
                     [token |-> kept[i].token, prob |-> Prob(kept[i].logprob)]]
    IN  <<selected>> \o others

\* as extract_alternatives, but without "if alt_token != selected_token"
Mut_extract_alternatives(token_data, n_alternatives) ==
    LET selected == [token |-> token_data.token, prob |-> Prob(token_data.logprob)]
        top == PySlice(token_data.top_logprobs, n_alternatives)
        others == [i \in 1..Len(top) |->
                     [token |-> top[i].token, prob |-> Prob(top[i].logprob)]]
    IN  PySlice(<<selected>> \o others, n_alternatives)

extract_alternatives(token_data, n_alternatives) ==
    LET selected == [token |-> token_data.token, prob |-> Prob(token_data.logprob)]
        top == PySlice(token_data.top_logprobs, n_alternatives)
        NotSelected(alt) == alt.token # token_data.token
        kept == SelectSeq(top, NotSelected)
        others == [i \in 1..Len(kept) |->
                     [token |-> kept[i].token, prob |-> Prob(kept[i].logprob)]]
    IN  PySlice(<<selected>> \o others, n_alternatives)

\* What one POST to /completion can do: fail in transport or time out,
\* answer with a non-success status, stream no event that carries
\* completion_probabilities, stream a data line that is not JSON, carry an
\* empty completion_probabilities array, or carry token data.
FailedReplies ==
    {[kind |-> k] : k \in {"transport", "http_status", "no_event"}}
MalformedReplies ==
    {[kind |-> k] : k \in {"bad_json", "empty_probs"}}
OkReplies(n) == {[kind |-> "ok", token_data |-> td] : td \in TokenData(n)}
OracleReplies(n) == FailedReplies \cup MalformedReplies \cup OkReplies(n)

\* The outcome of get_token_alternatives: a returned list, or an exception
\* that is not a requests.exceptions.RequestException and so escapes.
Returned(list) == [raised |-> FALSE, value |-> list]
Raised == [raised |-> TRUE, value |-> <<>>]

get_token_alternatives(reply, n_alternatives) ==
    CASE reply.kind \in {"transport", "http_status"} -> Returned(<<>>)
      [] reply.kind = "no_event" -> Returned(<<>>)
      [] reply.kind \in {"bad_json", "empty_probs"} -> Raised
      [] reply.kind = "ok" ->
            Returned(extract_alternatives(reply.token_data, n_alternatives))



(***************************************************************************)
(* build_token_tree, run by a worker thread.  The recursion is kept as an  *)
(* explicit stack of frames, one per active call that is inside its loop   *)
(* over the alternatives; "pending" is the call that is about to ask the   *)
(* oracle.  Between two oracle calls the code is deterministic, and Enter, *)
(* Loop and Resume run it to the next oracle call or to the final return.  *)
(***************************************************************************)
NoCall == [none |-> TRUE]

WorkerAt(frames, call) ==
    [frames |-> frames, pending |-> call, done |-> FALSE, tree |-> None, next_id |-> 0]
WorkerDone(tree, next_id) ==
    [frames |-> <<>>, pending |-> NoCall, done |-> TRUE, tree |-> tree, next_id |-> next_id]
WorkerIdle == WorkerAt(<<>>, NoCall)

MutDepthLimitReached(current_depth, max_depth) == current_depth > max_depth

\* if current_depth >= max_depth: return None, node_id
DepthLimitReached(current_depth, max_depth) == current_depth >= max_depth

\* as ChildNode, but every child gets the probability of a sentinel node
MutChildNode(next_id, alt) ==
    [id |-> next_id, token |-> alt.token, prob |-> 1000, children |-> <<>>]

\* the child_node dict built for one alternative
ChildNode(next_id, alt) ==
    [id |-> next_id, token |-> alt.token, prob |-> alt.prob, children |-> <<>>]

\* the dict returned for a call that got alternatives
TreeNode(node_id, current_depth, children) ==
    [id |-> node_id,
     token |-> IF current_depth = 0 THEN ROOT_TOKEN ELSE "",
     prob |-> 1000,
     children |-> children]

\* if subtree and subtree.get("children"): child_node["children"] = ...
AdoptChildren(child_node, subtree) ==
    IF subtree # None /\ subtree.children # <<>>
    THEN [child_node EXCEPT !.children = subtree.children]
    ELSE child_node

ReplaceTop(frames, f) == [frames EXCEPT ![Len(frames)] = f]
Pop(frames) == SubSeq(frames, 1, Len(frames) - 1)

RECURSIVE Enter(_, _, _, _, _)
RECURSIVE Loop(_, _)
RECURSIVE Resume(_, _, _, _)

\* a call build_token_tree(prompt, max_depth, current_depth, node_id)
Enter(frames, max_depth, prompt, current_depth, node_id) ==
    IF DepthLimitReached(current_depth, max_depth)
    THEN Resume(frames, max_depth, None, node_id)
    ELSE WorkerAt(frames, [prompt |-> prompt, current_depth |-> current_depth,
                           node_id |-> node_id])

\* the for loop of the top frame, at alternative number idx
Loop(frames, max_depth) ==
    LET f == frames[Len(frames)] IN
    IF f.idx > Len(f.alternatives)
    THEN Resume(Pop(frames), max_depth,
                TreeNode(f.node_id, f.current_depth, f.children), f.next_id)
    ELSE LET alt == f.alternatives[f.idx]
             child_prompt == f.prompt \o alt.token
             f2 == [f EXCEPT !.child_node = ChildNode(f.next_id, alt),
                             !.next_id = f.next_id + 1]
         IN  Enter(ReplaceTop(frames, f2), max_depth, child_prompt,
                   f.current_depth + 1, f2.next_id)

\* as Resume, but the caller keeps its own next_id
MutResume(frames, max_depth, subtree, next_id) ==
    IF frames = <<>>
    THEN WorkerDone(subtree, next_id)
    ELSE LET f == frames[Len(frames)]
             f2 == [f EXCEPT !.children = Append(@, AdoptChildren(f.child_node, subtree)),
                             !.idx = @ + 1]
         IN  Loop(ReplaceTop(frames, f2), max_depth)

\* a recursive call returned (subtree, next_id) to the loop of the top frame
Resume(frames, max_depth, subtree, next_id) ==
    IF frames = <<>>
    THEN WorkerDone(subtree, next_id)
    ELSE LET f == frames[Len(frames)]
             f2 == [f EXCEPT !.children = Append(@, AdoptChildren(f.child_node, subtree)),
                             !.next_id = next_id,
                             !.idx = @ + 1]
         IN  Loop(ReplaceTop(frames, f2), max_depth)

\* as AfterOracle, but the loop leaves out the selected token when there
\* are other alternatives
MutAfterOracleSkipsSelected(w, max_depth, alternatives) ==
    IF alternatives = <<>>
    THEN Resume(w.frames, max_depth, None, w.pending.node_id)
    ELSE Loop(Append(w.frames,
                     [prompt |-> w.pending.prompt,
                      current_depth |-> w.pending.current_depth,
                      node_id |-> w.pending.node_id,
                      alternatives |-> IF Len(alternatives) > 1 THEN Tail(alternatives)
                                       ELSE alternatives,
                      idx |-> 1,
                      children |-> <<>>,
                      next_id |-> w.pending.node_id + 1,
                      child_node |-> None]),
              max_depth)

\* as AfterOracle, but the ids of the children start at the node's own id
MutAfterOracleSameId(w, max_depth, alternatives) ==
    IF alternatives = <<>>
    THEN Resume(w.frames, max_depth, None, w.pending.node_id)
    ELSE Loop(Append(w.frames,
                     [prompt |-> w.pending.prompt,
                      current_depth |-> w.pending.current_depth,
                      node_id |-> w.pending.node_id,
                      alternatives |-> alternatives,
                      idx |-> 1,
                      children |-> <<>>,
                      next_id |-> w.pending.node_id,
                      child_node |-> None]),
              max_depth)

\* the pending call got "alternatives" from get_token_alternatives
AfterOracle(w, max_depth, alternatives) ==
    IF alternatives = <<>>
    THEN Resume(w.frames, max_depth, None, w.pending.node_id)
    ELSE Loop(Append(w.frames,
                     [prompt |-> w.pending.prompt,
                      current_depth |-> w.pending.current_depth,
                      node_id |-> w.pending.node_id,
                      alternatives |-> alternatives,
                      idx |-> 1,
                      children |-> <<>>,
                      next_id |-> w.pending.node_id + 1,
                      child_node |-> None]),
              max_depth)

\* as StartBuild, but the depth of the root is counted from -1
MutStartBuild(prompt, max_depth) == Enter(<<>>, max_depth, prompt, -1, 0)

\* build_token_tree(prompt, max_depth): current_depth = 0, node_id = 0
StartBuild(prompt, max_depth) == Enter(<<>>, max_depth, prompt, 0, 0)

(***************************************************************************)
(* The websocket handler, one per connection.                              *)
(***************************************************************************)
Sessions == {1, 2}

VARIABLES
    inbox,       \* per session: text frames the client sent, not yet received
    clientOpen,  \* per session: the client has not disconnected
    nsent,       \* per session: frames the client has sent so far
    pc,          \* per session: where the handler coroutine is
    local,       \* per session: the handler's local variables
    worker,      \* per session: the worker thread running build_token_tree
    log,         \* per session: what happened for the request last received
    nrecv,       \* per session: frames the handler has received so far
    handling,    \* per session: requests received whose handling has not ended
    loop,        \* what the event loop is doing: "free", or blocked in a call
    health,      \* the last response of GET /health, None before the first
    mqtt_client, \* TRUE when the MQTT client was created and connected
    published    \* the prompts published to the broker, in order

vars == <<inbox, clientOpen, nsent, pc, local, worker, log, nrecv, handling,
          loop, health, mqtt_client, published>>

\* actions that make the session build (status message, then a result)
BuildActions == {"build_tree", "get_branch_tokens", "get_branch_tokens_multi"}

\* the text frames a client sends: a JSON object, text that is not JSON, or
\* JSON that is not an object
ObjectFrame(request) == [json |-> "object", body |-> request]
RequestsOf(maxCount, maxDepth, maxPoints) ==
    {[action |-> "get_tokens", prompt |-> "p", n_alternatives |-> n] : n \in 0..maxCount}
    \cup {[action |-> "build_tree", prompt |-> "p", max_depth |-> d] : d \in 0..maxDepth}
    \cup {[action |-> "get_branch_tokens", prompt |-> "p", count |-> n] : n \in 0..maxCount}
    \cup {[action |-> "get_branch_tokens_multi", prompt |-> "p", branches |-> b] :
            b \in SeqUpTo(0..maxCount, maxPoints)}
    \cup {[action |-> "get_options", prompt |-> "p", count |-> n] : n \in 0..maxCount}
    \cup {[action |-> "ping"], [action |-> "explore"], [prompt |-> "p"]}
FramesOf(maxCount, maxDepth, maxPoints) ==
    {ObjectFrame(r) : r \in RequestsOf(maxCount, maxDepth, maxPoints)}
    \cup {[json |-> "invalid"], [json |-> "array"]}

LocalInit ==
    [prompt |-> "", count |-> 0, branches |-> <<>>, max_depth |-> 0,
     tokens |-> <<>>, current_prompt |-> "", i |-> 0]

\* the state after "await websocket.accept()" on every connection; the
\* module-level code that sets mqtt_client has run before
Accepted ==
    /\ inbox = [s \in Sessions |-> <<>>]
    /\ clientOpen = [s \in Sessions |-> TRUE]
    /\ nsent = [s \in Sessions |-> 0]
    /\ pc = [s \in Sessions |-> "receive"]
    /\ local = [s \in Sessions |-> LocalInit]
    /\ worker = [s \in Sessions |-> WorkerIdle]
    /\ log = [s \in Sessions |-> <<>>]
    /\ nrecv = [s \in Sessions |-> 0]
    /\ handling = [s \in Sessions |-> 0]
    /\ loop = "free"
    /\ health = None
    /\ published = <<>>

\* MQTT_BROKER is not set (the default ""): mqtt_client stays None
Init == Accepted /\ mqtt_client = FALSE

\* MQTT_BROKER is set or not; when set, the connection at startup worked
\* (mqtt_client is the client) or failed (mqtt_client = None)
InitConfigured == Accepted /\ mqtt_client \in BOOLEAN

(***************************************************************************)
(* The client side of a connection.                                        *)
(***************************************************************************)
\* the client sends one more text frame, one of "frames"
ClientSend(s, frames, maxRequests) ==
    /\ clientOpen[s]
    /\ nsent[1] + nsent[2] < maxRequests
    /\ \E data \in frames :
          inbox' = [inbox EXCEPT ![s] =
                       Append(@, [data |-> data, seq |-> nsent[s] + 1,
                                  during_build |-> pc[s] \in BuildActions])]
    /\ nsent' = [nsent EXCEPT ![s] = @ + 1]
    /\ UNCHANGED <<clientOpen, pc, local, worker, log, nrecv, handling,
                   loop, health, mqtt_client, published>>

ClientDisconnect(s) ==
    /\ clientOpen[s]
    /\ clientOpen' = [clientOpen EXCEPT ![s] = FALSE]
    /\ UNCHANGED <<inbox, nsent, pc, local, worker, log, nrecv, handling,
                   loop, health, mqtt_client, published>>

(***************************************************************************)
(* Sending and log entries.                                                *)
(***************************************************************************)
\* await websocket.send_json(msg): on an open connection the message goes
\* out.  After the client has disconnected the message goes nowhere, and
\* the framework either ignores the send, raises WebSocketDisconnect, or
\* raises another exception.
MutSendOutcomes(s) == {"sent"}

SendOutcomes(s) ==
    IF clientOpen[s] THEN {"sent"} ELSE {"dropped", "disconnect", "error"}

SendLog(msg, o) == IF o = "sent" THEN <<[ev |-> "send", msg |-> msg]>> ELSE <<>>

\* where the handler is after the send: on, in "except WebSocketDisconnect"
\* (the handler returns) or in "except Exception" (close, then return)
AfterSend(o, next) ==
    CASE o \in {"sent", "dropped"} -> next
      [] o = "disconnect" -> "disconnected"
      [] o = "error" -> "closed"

RecvLog(frame) ==
    [ev |-> "recv", seq |-> frame.seq, during_build |-> frame.during_build,
     data |-> frame.data]

\* the log of a call keeps the oracle's reply for the single-step actions;
\* the loops keep only what the call returned
NotKept == [kept |-> FALSE]

CallLog(prompt, n, depth, reply, result) ==
    [ev |-> "call", prompt |-> prompt, n |-> n, depth |-> depth, reply |-> reply,
     raised |-> result.raised, value |-> result.value]

Ended(p) == p \in {"receive", "disconnected", "closed"}

(***************************************************************************)
(* The handler's steps.                                                    *)
(***************************************************************************)
MutAtReceive(s) == pc[s] \notin {"disconnected", "closed"}

\* the handler is at "data = await websocket.receive_text()"
AtReceive(s) == pc[s] = "receive"

\* the frame receive_text returns: the oldest unread one
NextFrame(s) == Head(inbox[s])

\* request.get("action"); "null" stands for None
ActionOf(request) == IF "action" \in DOMAIN request THEN request.action ELSE "null"

\* as Pad, but without the while loop
MutPad(alts, n) == alts

\* alts padded by "while len(alts) < n: alts.append({"token": "?", ...})"
Pad(alts, n) ==
    IF Len(alts) < n
    THEN alts \o [k \in 1..(n - Len(alts)) |-> Placeholder]
    ELSE alts

\* the next branch point after number i whose width is > 0 (the loop makes
\* no call for the others), or Len(branches) + 1 when the loop is over
NextCallIndex(branches, i) ==
    LET later == {j \in (i + 1)..Len(branches) : branches[j] > 0}
    IN  IF later = {} THEN Len(branches) + 1
        ELSE CHOOSE j \in later : \A k \in later : j <= k

\* a step of the handler of s that leaves it at newpc; the code between two
\* awaits runs on the event loop, so the step needs the loop
HandlerMove(s, newpc, newlocal, newworker, newlog, started, newpublished) ==
    /\ loop = "free"
    /\ published' = newpublished
    /\ UNCHANGED <<loop, health, mqtt_client>>
    /\ pc' = [pc EXCEPT ![s] = newpc]
    /\ local' = [local EXCEPT ![s] = IF newpc = "receive" THEN LocalInit ELSE newlocal]
    /\ worker' = [worker EXCEPT ![s] = IF Ended(newpc) THEN WorkerIdle ELSE newworker]
    /\ log' = [log EXCEPT ![s] = newlog]
    /\ handling' = [handling EXCEPT ![s] =
                       @ + (IF started THEN 1 ELSE 0) - (IF Ended(newpc) THEN 1 ELSE 0)]

\* a step that publishes nothing
HandlerStep(s, newpc, newlocal, newworker, newlog, started) ==
    HandlerMove(s, newpc, newlocal, newworker, newlog, started, published)

\* receive_text returned a frame and json.loads gave an object with "action"
ReceiveRequest(s, action) ==
    /\ AtReceive(s)
    /\ inbox[s] # <<>>
    /\ NextFrame(s).data.json = "object"
    /\ ActionOf(NextFrame(s).data.body) = action
    /\ inbox' = [inbox EXCEPT ![s] = Tail(@)]
    /\ nrecv' = [nrecv EXCEPT ![s] = @ + 1]
    /\ UNCHANGED <<clientOpen, nsent>>

\* as ReceiveMalformed, but the exception is answered with an error message
\* inside the loop
MutReceiveMalformed(s) ==
    /\ AtReceive(s)
    /\ inbox[s] # <<>>
    /\ NextFrame(s).data.json # "object"
    /\ inbox' = [inbox EXCEPT ![s] = Tail(@)]
    /\ nrecv' = [nrecv EXCEPT ![s] = @ + 1]
    /\ \E o \in SendOutcomes(s) :
          HandlerStep(s, AfterSend(o, "receive"), LocalInit, WorkerIdle,
                      <<RecvLog(NextFrame(s))>> \o SendLog([type |-> "error"], o), TRUE)
    /\ UNCHANGED <<clientOpen, nsent>>

\* json.loads raises, or request.get does (the JSON is not an object):
\* except Exception, websocket.close()
ReceiveMalformed(s) ==
    /\ AtReceive(s)
    /\ inbox[s] # <<>>
    /\ NextFrame(s).data.json # "object"
    /\ inbox' = [inbox EXCEPT ![s] = Tail(@)]
    /\ nrecv' = [nrecv EXCEPT ![s] = @ + 1]
    /\ HandlerStep(s, "closed", LocalInit, WorkerIdle, <<RecvLog(NextFrame(s))>>, TRUE)
    /\ UNCHANGED <<clientOpen, nsent>>

\* receive_text raises WebSocketDisconnect: every frame sent before the
\* client left has been read
ReceiveDisconnect(s) ==
    /\ AtReceive(s)
    /\ inbox[s] = <<>>
    /\ ~clientOpen[s]
    /\ pc' = [pc EXCEPT ![s] = "disconnected"]
    /\ loop = "free"
    /\ UNCHANGED <<inbox, clientOpen, nsent, local, worker, log, nrecv, handling,
                   loop, health, mqtt_client, published>>

ReceiveGetTokens(s) ==
    /\ ReceiveRequest(s, "get_tokens")
    /\ LET request == NextFrame(s).data.body
           prompt == Get(request, "prompt", "")
           n_alternatives == Get(request, "n_alternatives", 5)
       IN  HandlerStep(s, "get_tokens",
                       [LocalInit EXCEPT !.prompt = prompt, !.count = n_alternatives],
                       WorkerIdle, <<RecvLog(NextFrame(s))>>, TRUE)

GetTokensReturn(s, replies) ==
    /\ pc[s] = "get_tokens"
    /\ \E reply \in replies[local[s].count], o \in SendOutcomes(s) :
          LET alternatives == get_token_alternatives(reply, local[s].count)
              called == Append(log[s], CallLog(local[s].prompt, local[s].count, 0, reply, alternatives))
              msg == [type |-> "tokens", prompt |-> local[s].prompt,
                      alternatives |-> alternatives.value]
          IN  IF alternatives.raised
              THEN HandlerStep(s, "closed", local[s], WorkerIdle, called, FALSE)
              ELSE HandlerStep(s, AfterSend(o, "receive"), local[s], WorkerIdle,
                               called \o SendLog(msg, o), FALSE)
    /\ UNCHANGED <<inbox, clientOpen, nsent, nrecv>>

\* as ReceiveBuildTree, but a request that arrived during a build is
\* answered with "busy"
MutReceiveBuildTree(s) ==
    /\ ReceiveRequest(s, "build_tree")
    /\ \E o \in SendOutcomes(s) :
          LET request == NextFrame(s).data.body
              prompt == Get(request, "prompt", DEFAULT_PROMPT)
              max_depth == Get(request, "max_depth", MAX_DEPTH)
              msg == [type |-> "status", message |-> "Building token tree..."]
          IN  IF NextFrame(s).during_build
              THEN HandlerStep(s, AfterSend(o, "receive"), LocalInit, WorkerIdle,
                               <<RecvLog(NextFrame(s))>> \o SendLog([type |-> "busy"], o),
                               TRUE)
              ELSE HandlerStep(s, AfterSend(o, "build_tree"),
                               [LocalInit EXCEPT !.prompt = prompt, !.max_depth = max_depth],
                               StartBuild(prompt, max_depth),
                               <<RecvLog(NextFrame(s))>> \o SendLog(msg, o), TRUE)

ReceiveBuildTree(s) ==
    /\ ReceiveRequest(s, "build_tree")
    /\ \E o \in SendOutcomes(s) :
          LET request == NextFrame(s).data.body
              prompt == Get(request, "prompt", DEFAULT_PROMPT)
              max_depth == Get(request, "max_depth", MAX_DEPTH)
              msg == [type |-> "status", message |-> "Building token tree..."]
          IN  HandlerStep(s, AfterSend(o, "build_tree"),
                          [LocalInit EXCEPT !.prompt = prompt, !.max_depth = max_depth],
                          StartBuild(prompt, max_depth),
                          <<RecvLog(NextFrame(s))>> \o SendLog(msg, o), TRUE)

\* the worker makes the pending call of build_token_tree: it draws n_alts,
\* asks the oracle, and runs on to the next call or to the end
BuildTreeOracle(s, replies) ==
    /\ pc[s] = "build_tree"
    /\ ~worker[s].done
    /\ \E n_alts \in TOKENS_PER_NODE[1]..TOKENS_PER_NODE[2] : \E reply \in replies[n_alts] :
          LET call == worker[s].pending
              alternatives == get_token_alternatives(reply, n_alts)
              called == Append(log[s], CallLog(call.prompt, n_alts,
                                               call.current_depth, NotKept, alternatives))
          IN  IF alternatives.raised
              THEN HandlerStep(s, "closed", local[s], WorkerIdle, called, FALSE)
              ELSE HandlerStep(s, "build_tree", local[s],
                               AfterOracle(worker[s], local[s].max_depth, alternatives.value),
                               called, FALSE)
    /\ UNCHANGED <<inbox, clientOpen, nsent, nrecv>>

\* asyncio.to_thread(build_token_tree, ...) returned (tree, _)
BuildTreeReturn(s) ==
    /\ pc[s] = "build_tree"
    /\ worker[s].done
    /\ \E o \in SendOutcomes(s) :
          LET msg == [type |-> "tree", prompt |-> local[s].prompt, tree |-> worker[s].tree]
          IN  HandlerStep(s, AfterSend(o, "receive"), local[s], worker[s],
                          log[s] \o SendLog(msg, o), FALSE)
    /\ UNCHANGED <<inbox, clientOpen, nsent, nrecv>>

\* as ReceiveBranchTokens, but the loop goes on from the prefix of the last
\* oracle call of the session's previous request
MutReceiveBranchTokens(s) ==
    /\ ReceiveRequest(s, "get_branch_tokens")
    /\ \E o \in SendOutcomes(s) :
          LET request == NextFrame(s).data.body
              prompt == Get(request, "prompt", DEFAULT_PROMPT)
              count == Get(request, "count", 100)
              msg == [type |-> "status", fetching |-> count]
              earlier == SelectSeq(log[s], LAMBDA e : e.ev = "call")
              kept == IF earlier = <<>> THEN prompt ELSE earlier[Len(earlier)].prompt
              loop_at == IF Mistyped(request, "count") THEN "closed"
                         ELSE "get_branch_tokens"
          IN  HandlerStep(s, AfterSend(o, loop_at),
                          [LocalInit EXCEPT !.prompt = prompt, !.count = count,
                                            !.current_prompt = kept],
                          WorkerIdle, <<RecvLog(NextFrame(s))>> \o SendLog(msg, o), TRUE)

\* the status goes out with whatever count is; "range(count)" then raises
\* TypeError when count is not an integer: except Exception, close
ReceiveBranchTokens(s) ==
    /\ ReceiveRequest(s, "get_branch_tokens")
    /\ \E o \in SendOutcomes(s) :
          LET request == NextFrame(s).data.body
              prompt == Get(request, "prompt", DEFAULT_PROMPT)
              count == Get(request, "count", 100)
              msg == [type |-> "status", fetching |-> count]
              loop_at == IF Mistyped(request, "count") THEN "closed"
                         ELSE "get_branch_tokens"
          IN  HandlerStep(s, AfterSend(o, loop_at),
                          [LocalInit EXCEPT !.prompt = prompt, !.count = count,
                                            !.current_prompt = prompt],
                          WorkerIdle, <<RecvLog(NextFrame(s))>> \o SendLog(msg, o), TRUE)

\* what one iteration of the linear loop appends to tokens
BranchEntry(alts) == IF alts # <<>> THEN alts[1] ELSE Placeholder

MutBranchAppend(tokens, alts) ==
    IF alts # <<>> THEN Append(tokens, alts[1]) ELSE tokens

\* tokens.append(alts[0]) or tokens.append({"token": "?", "prob": 0.0})
BranchAppend(tokens, alts) == Append(tokens, BranchEntry(alts))

MutBranchAdvance(current_prompt, alts) == current_prompt \o BranchEntry(alts).token

\* what one iteration of the linear loop makes of current_prompt
BranchAdvance(current_prompt, alts) ==
    IF alts # <<>> THEN current_prompt \o alts[1].token ELSE current_prompt

\* as BranchStep, but an exception of the oracle call is answered with an
\* error message and the handler goes back to receive_text
MutBranchStep(s, replies) ==
    /\ pc[s] = "get_branch_tokens"
    /\ local[s].i < local[s].count
    /\ \E reply \in replies[1], o \in SendOutcomes(s) :
          LET alts == get_token_alternatives(reply, 1)
              called == Append(log[s], CallLog(local[s].current_prompt, 1, 0, NotKept, alts))
          IN  IF alts.raised
              THEN HandlerStep(s, AfterSend(o, "receive"), local[s], WorkerIdle,
                               called \o SendLog([type |-> "error"], o), FALSE)
              ELSE HandlerStep(s, "get_branch_tokens",
                               [local[s] EXCEPT
                                   !.tokens = BranchAppend(@, alts.value),
                                   !.current_prompt = BranchAdvance(@, alts.value),
                                   !.i = @ + 1],
                               WorkerIdle, called, FALSE)
    /\ UNCHANGED <<inbox, clientOpen, nsent, nrecv>>

\* one iteration of "for i in range(count)"
BranchStep(s, replies) ==
    /\ pc[s] = "get_branch_tokens"
    /\ local[s].i < local[s].count
    /\ \E reply \in replies[1] :
          LET alts == get_token_alternatives(reply, 1)
              called == Append(log[s], CallLog(local[s].current_prompt, 1, 0, NotKept, alts))
          IN  IF alts.raised
              THEN HandlerStep(s, "closed", local[s], WorkerIdle, called, FALSE)
              ELSE HandlerStep(s, "get_branch_tokens",
                               [local[s] EXCEPT
                                   !.tokens = BranchAppend(@, alts.value),
                                   !.current_prompt = BranchAdvance(@, alts.value),
                                   !.i = @ + 1],
                               WorkerIdle, called, FALSE)
    /\ UNCHANGED <<inbox, clientOpen, nsent, nrecv>>

\* as BranchReturn, but nothing is sent
MutBranchReturn(s) ==
    /\ pc[s] = "get_branch_tokens"
    /\ local[s].i >= local[s].count
    /\ HandlerStep(s, "receive", local[s], WorkerIdle, log[s], FALSE)
    /\ UNCHANGED <<inbox, clientOpen, nsent, nrecv>>

\* the loop is over: send branch_tokens
BranchReturn(s) ==
    /\ pc[s] = "get_branch_tokens"
    /\ local[s].i >= local[s].count
    /\ \E o \in SendOutcomes(s) :
          LET msg == [type |-> "branch_tokens", tokens |-> local[s].tokens]
          IN  HandlerStep(s, AfterSend(o, "receive"), local[s], WorkerIdle,
                          log[s] \o SendLog(msg, o), FALSE)
    /\ UNCHANGED <<inbox, clientOpen, nsent, nrecv>>

ReceiveBranchTokensMulti(s) ==
    /\ ReceiveRequest(s, "get_branch_tokens_multi")
    /\ \E o \in SendOutcomes(s) :
          LET request == NextFrame(s).data.body
              prompt == Get(request, "prompt", DEFAULT_PROMPT)
              branches == Get(request, "branches", <<>>)
              total == PySum(branches)
              msg == [type |-> "status", branch_points |-> Len(branches), total |-> total]
          IN  HandlerStep(s, AfterSend(o, "get_branch_tokens_multi"),
                          [LocalInit EXCEPT !.prompt = prompt, !.branches = branches,
                                            !.current_prompt = prompt,
                                            !.i = NextCallIndex(branches, 0)],
                          WorkerIdle, <<RecvLog(NextFrame(s))>> \o SendLog(msg, o), TRUE)

\* as MultiAdvance, but a placeholder is not appended to the prompt
MutMultiAdvance(current_prompt, padded) ==
    IF padded # <<>> /\ padded[1] # Placeholder
    THEN current_prompt \o padded[1].token
    ELSE current_prompt

\* "if alts: current_prompt += alts[0]["token"]", alts being the padded list
MultiAdvance(current_prompt, padded) ==
    IF padded # <<>> THEN current_prompt \o padded[1].token ELSE current_prompt

\* one iteration of "for num_children in branches" with num_children > 0
MultiStep(s, replies) ==
    /\ pc[s] = "get_branch_tokens_multi"
    /\ local[s].i <= Len(local[s].branches)
    /\ \E reply \in replies[local[s].branches[local[s].i]] :
          LET num_children == local[s].branches[local[s].i]
              alts == get_token_alternatives(reply, num_children)
              padded == Pad(alts.value, num_children)
              called == Append(log[s], CallLog(local[s].current_prompt, num_children, 0, NotKept, alts))
          IN  IF alts.raised
              THEN HandlerStep(s, "closed", local[s], WorkerIdle, called, FALSE)
              ELSE HandlerStep(s, "get_branch_tokens_multi",
                               [local[s] EXCEPT
                                   !.tokens = @ \o PySlice(padded, num_children),
                                   !.current_prompt = MultiAdvance(@, padded),
                                   !.i = NextCallIndex(local[s].branches, @)],
                               WorkerIdle, called, FALSE)
    /\ UNCHANGED <<inbox, clientOpen, nsent, nrecv>>

MultiReturn(s) ==
    /\ pc[s] = "get_branch_tokens_multi"
    /\ local[s].i > Len(local[s].branches)
    /\ \E o \in SendOutcomes(s) :
          LET msg == [type |-> "branch_tokens", tokens |-> local[s].tokens]
          IN  HandlerStep(s, AfterSend(o, "receive"), local[s], WorkerIdle,
                          log[s] \o SendLog(msg, o), FALSE)
    /\ UNCHANGED <<inbox, clientOpen, nsent, nrecv>>

\* what mqtt_client.publish(MQTT_TOPIC, prompt) does when it is called: it
\* hands the message to the broker, or raises
PublishOutcomes == {"ok", "failed"}

\* as publish_prompt, but without the try/except around publish
Mut_publish_prompt(client, prompt, outcome, pub) ==
    IF client
    THEN IF outcome = "ok"
         THEN [published |-> Append(pub, prompt), raised |-> FALSE]
         ELSE [published |-> pub, raised |-> TRUE]
    ELSE [published |-> pub, raised |-> FALSE]

\* publish_prompt(prompt): the prompts published afterwards, and whether an
\* exception leaves the function
publish_prompt(client, prompt, outcome, pub) ==
    IF client
    THEN IF outcome = "ok"
         THEN [published |-> Append(pub, prompt), raised |-> FALSE]
         ELSE [published |-> pub, raised |-> FALSE]
    ELSE [published |-> pub, raised |-> FALSE]

PublishLog(client, outcome) ==
    [ev |-> "publish", outcome |-> IF client THEN outcome ELSE "none"]

\* publish_prompt(prompt) runs here, before the oracle call
ReceiveGetOptions(s) ==
    /\ ReceiveRequest(s, "get_options")
    /\ \E outcome \in (IF mqtt_client THEN PublishOutcomes ELSE {"none"}) :
          LET request == NextFrame(s).data.body
              prompt == Get(request, "prompt", DEFAULT_PROMPT)
              count == Get(request, "count", 5)
              pub == publish_prompt(mqtt_client, prompt, outcome, published)
              newlog == <<RecvLog(NextFrame(s)), PublishLog(mqtt_client, outcome)>>
          IN  HandlerMove(s, IF pub.raised THEN "closed" ELSE "get_options",
                          [LocalInit EXCEPT !.prompt = prompt, !.count = count],
                          WorkerIdle, newlog, TRUE, pub.published)

MutOptionsOf(alts, count) == PySlice(alts, count)

\* the options sent: alts padded, then alts[:count]
OptionsOf(alts, count) == PySlice(Pad(alts, count), count)

\* as GetOptionsReturn, but the request ends after the publish: no oracle
\* call and no answer
MutGetOptionsReturn(s, replies) ==
    /\ pc[s] = "get_options"
    /\ HandlerStep(s, "receive", local[s], WorkerIdle, log[s], FALSE)
    /\ UNCHANGED <<inbox, clientOpen, nsent, nrecv>>

GetOptionsReturn(s, replies) ==
    /\ pc[s] = "get_options"
    /\ \E reply \in replies[local[s].count], o \in SendOutcomes(s) :
          LET alts == get_token_alternatives(reply, local[s].count)
              called == Append(log[s], CallLog(local[s].prompt, local[s].count, 0, reply, alts))
              msg == [type |-> "token_options", options |-> OptionsOf(alts.value, local[s].count)]
          IN  IF alts.raised
              THEN HandlerStep(s, "closed", local[s], WorkerIdle, called, FALSE)
              ELSE HandlerStep(s, AfterSend(o, "receive"), local[s], WorkerIdle,
                               called \o SendLog(msg, o), FALSE)
    /\ UNCHANGED <<inbox, clientOpen, nsent, nrecv>>

\* as ReceivePing, but a ping is also read and answered while the handler
\* is waiting for a build
MutReceivePing(s) ==
    \/ /\ ReceiveRequest(s, "ping")
       /\ \E o \in SendOutcomes(s) :
             HandlerStep(s, AfterSend(o, "receive"), LocalInit, WorkerIdle,
                         <<RecvLog(NextFrame(s))>> \o SendLog([type |-> "pong"], o), TRUE)
    \/ /\ pc[s] \in BuildActions
       /\ inbox[s] # <<>>
       /\ NextFrame(s).data.json = "object"
       /\ ActionOf(NextFrame(s).data.body) = "ping"
       /\ inbox' = [inbox EXCEPT ![s] = Tail(@)]
       /\ nrecv' = [nrecv EXCEPT ![s] = @ + 1]
       /\ \E o \in SendOutcomes(s) :
             log' = [log EXCEPT ![s] = @ \o SendLog([type |-> "pong"], o)]
       /\ UNCHANGED <<clientOpen, nsent, pc, local, worker, handling,
                      loop, health, mqtt_client, published>>

ReceivePing(s) ==
    /\ ReceiveRequest(s, "ping")
    /\ \E o \in SendOutcomes(s) :
          HandlerStep(s, AfterSend(o, "receive"), LocalInit, WorkerIdle,
                      <<RecvLog(NextFrame(s))>> \o SendLog([type |-> "pong"], o), TRUE)

KnownActions ==
    {"get_tokens", "build_tree", "get_branch_tokens", "get_branch_tokens_multi",
     "get_options", "ping"}

\* as ReceiveOther, but an action that matches no branch is an error that
\* ends the handler
MutReceiveOther(s) ==
    /\ AtReceive(s)
    /\ inbox[s] # <<>>
    /\ NextFrame(s).data.json = "object"
    /\ ActionOf(NextFrame(s).data.body) \notin KnownActions
    /\ inbox' = [inbox EXCEPT ![s] = Tail(@)]
    /\ nrecv' = [nrecv EXCEPT ![s] = @ + 1]
    /\ HandlerStep(s, "closed", LocalInit, WorkerIdle, <<RecvLog(NextFrame(s))>>, TRUE)
    /\ UNCHANGED <<clientOpen, nsent>>

\* no branch of the if/elif chain matches: back to receive_text
ReceiveOther(s) ==
    /\ AtReceive(s)
    /\ inbox[s] # <<>>
    /\ NextFrame(s).data.json = "object"
    /\ ActionOf(NextFrame(s).data.body) \notin KnownActions
    /\ inbox' = [inbox EXCEPT ![s] = Tail(@)]
    /\ nrecv' = [nrecv EXCEPT ![s] = @ + 1]
    /\ HandlerStep(s, "receive", LocalInit, WorkerIdle, <<RecvLog(NextFrame(s))>>, TRUE)
    /\ UNCHANGED <<clientOpen, nsent>>

(***************************************************************************)
(* GET /health.  The coroutine calls check_llama_server() itself: the      *)
(* event loop is inside requests.get (timeout 2 s) until it returns.       *)
(***************************************************************************)
HealthResponse(llama_ok) ==
    [status |-> "ok", llama_cpp |-> IF llama_ok THEN "connected" ELSE "disconnected"]

\* a request to /health is dispatched: llama_ok = check_llama_server() begins
HealthRequest ==
    /\ loop = "free"
    /\ loop' = "health"
    /\ UNCHANGED <<inbox, clientOpen, nsent, pc, local, worker, log, nrecv,
                   handling, health, mqtt_client, published>>

\* check_llama_server() returns True (status 200) or False (another status,
\* or a RequestException); the response is returned
HealthReturn ==
    /\ loop = "health"
    /\ \E llama_ok \in BOOLEAN : health' = HealthResponse(llama_ok)
    /\ loop' = "free"
    /\ UNCHANGED <<inbox, clientOpen, nsent, pc, local, worker, log, nrecv,
                   handling, mqtt_client, published>>

\* the steps of one handler on a connection whose client stays
Serve(s, replies) ==
    \/ ReceiveMalformed(s)
    \/ ReceiveGetTokens(s) \/ GetTokensReturn(s, replies)
    \/ ReceiveBuildTree(s) \/ BuildTreeOracle(s, replies) \/ BuildTreeReturn(s)
    \/ ReceiveBranchTokens(s) \/ BranchStep(s, replies) \/ BranchReturn(s)
    \/ ReceiveBranchTokensMulti(s) \/ MultiStep(s, replies) \/ MultiReturn(s)
    \/ ReceiveGetOptions(s) \/ GetOptionsReturn(s, replies)
    \/ ReceivePing(s)
    \/ ReceiveOther(s)

(***************************************************************************)
(* Spec: the session protocol.  Two connections, clients that send while   *)
(* the handler is busy and that disconnect at any time; small requests.    *)
(***************************************************************************)
ProtocolRequests ==
    {[action |-> "get_tokens", prompt |-> "p", n_alternatives |-> 1],
     [action |-> "build_tree", prompt |-> "p", max_depth |-> 1],
     [action |-> "get_branch_tokens", prompt |-> "p", count |-> 2],
     \* "count": "many"
     [action |-> "get_branch_tokens", prompt |-> "p", count |-> 0,
      mistyped |-> {"count"}],
     [action |-> "get_branch_tokens_multi", prompt |-> "p", branches |-> <<1, 1>>],
     [action |-> "get_options", prompt |-> "p", count |-> 1],
     [action |-> "ping"],
     [action |-> "explore"],
     [prompt |-> "p"]}
ProtocolFrames ==
    {ObjectFrame(r) : r \in ProtocolRequests} \cup {[json |-> "invalid"], [json |-> "array"]}

\* the oracle answers with one token, or with a payload the client cannot
\* read
ProtocolReplies ==
    [n \in 0..2 |->
        {[kind |-> "bad_json"],
         [kind |-> "ok",
          token_data |-> [token |-> "a", logprob |-> -1, top_logprobs |-> <<>>]]}]

Next ==
    \E s \in Sessions :
        \/ Serve(s, ProtocolReplies)
        \/ ReceiveDisconnect(s)
        \/ ClientDisconnect(s)
        \/ ClientSend(s, ProtocolFrames, MaxRequests)

Spec == Init /\ [][Next]_vars

(***************************************************************************)
(* SpecBuild: one request on one connection that stays open, drawn from    *)
(* the larger requests, with every behaviour of the oracle.                *)
(***************************************************************************)
BuildFrames == FramesOf(MaxCount, MaxTreeDepth, MaxBranchPoints)

\* every reply of the oracle, per requested width
BuildReplies == [n \in 0..Max(MaxCount, TOKENS_PER_NODE[2]) |-> OracleReplies(n)]

NextBuild ==
    \/ Serve(1, BuildReplies)
    \/ ClientSend(1, BuildFrames, 1)

SpecBuild == InitConfigured /\ [][NextBuild]_vars

(***************************************************************************)
(* SpecLoop: the event loop shared by the connections and /health.  The    *)
(* clients ask for trees and send pings.                                   *)
(***************************************************************************)
LoopRequests ==
    {[action |-> "build_tree", prompt |-> "p", max_depth |-> 1],
     [action |-> "ping"]}
LoopFrames == {ObjectFrame(r) : r \in LoopRequests}

NextLoop ==
    \/ HealthRequest
    \/ HealthReturn
    \/ \E s \in Sessions :
          \/ ReceiveBuildTree(s)
          \/ BuildTreeOracle(s, ProtocolReplies)
          \/ BuildTreeReturn(s)
          \/ ReceivePing(s)
          \/ ClientSend(s, LoopFrames, MaxRequests)

SpecLoop == Init /\ [][NextLoop]_vars

(***************************************************************************)
(* SpecTree: one build_tree request on a connection that stays open, with  *)
(* an oracle that answers or fails.  The event loop runs a handler that    *)
(* can go on, and the worker's oracle call ends (requests.post has a       *)
(* timeout), so each step of the handler is weakly fair; the client is     *)
(* not.                                                                    *)
(***************************************************************************)
TreeFrames ==
    {ObjectFrame([action |-> "build_tree", prompt |-> "p", max_depth |-> d]) :
        d \in 0..MaxTreeDepth}

\* the oracle is unreachable, sends a payload that cannot be read, selects
\* "a" and reports "a" and "?" as its top alternatives, or selects "?" and
\* reports nothing else
TreeReplies ==
    [n \in 0..TOKENS_PER_NODE[2] |->
        {[kind |-> "transport"],
         [kind |-> "bad_json"],
         [kind |-> "ok",
          token_data |-> [token |-> "a", logprob |-> -1,
                          top_logprobs |-> <<[token |-> "a", logprob |-> -1],
                                             [token |-> "?", logprob |-> -1]>>]],
         [kind |-> "ok",
          token_data |-> [token |-> "?", logprob |-> -1, top_logprobs |-> <<>>]]}]

NextTree ==
    \/ ReceiveBuildTree(1)
    \/ BuildTreeOracle(1, TreeReplies)
    \/ BuildTreeReturn(1)
    \/ ClientSend(1, TreeFrames, 1)

SpecTree ==
    /\ Init
    /\ [][NextTree]_vars
    /\ WF_vars(ReceiveBuildTree(1))
    /\ WF_vars(BuildTreeOracle(1, TreeReplies))
    /\ WF_vars(BuildTreeReturn(1))

(***************************************************************************)
(* SpecExtract: one get_tokens request on a connection that stays open,    *)
(* with an oracle that answers over three tokens and lists any number of   *)
(* top alternatives, more than asked included, in any order and with       *)
(* repetitions.                                                            *)
(***************************************************************************)
ExtractTokens == {"a", "b", "?"}

ExtractEntries == [token : ExtractTokens, logprob : Logprobs]

ExtractReplies ==
    [n \in 0..MaxCount |->
        {[kind |-> "ok", token_data |-> td] :
            td \in [token : ExtractTokens, logprob : Logprobs,
                    top_logprobs : SeqUpTo(ExtractEntries, MaxTop + 1)]}]

TokenFrames ==
    {ObjectFrame([action |-> "get_tokens", prompt |-> "p", n_alternatives |-> n]) :
        n \in 0..MaxCount}

NextExtract ==
    \/ ReceiveGetTokens(1)
    \/ GetTokensReturn(1, ExtractReplies)
    \/ ClientSend(1, TokenFrames, 1)

SpecExtract == Init /\ [][NextExtract]_vars

(***************************************************************************)
(* Reading the log of the request a session received last.                 *)
(***************************************************************************)
IsCall(e) == e.ev = "call"
IsSend(e) == e.ev = "send"

\* the oracle calls made for the request, in order
Calls(s) == SelectSeq(log[s], IsCall)

\* the messages sent for the request, in order
Sent(s) == LET sends == SelectSeq(log[s], IsSend)
           IN  [k \in 1..Len(sends) |-> sends[k].msg]

\* the last request of s was a JSON object with this action
Handled(s, action) ==
    /\ log[s] # <<>>
    /\ log[s][1].data.json = "object"
    /\ ActionOf(log[s][1].data.body) = action

Request(s) == log[s][1].data.body

\* the messages of one type sent for the request
IsStatus(m) == m.type = "status"
IsTree(m) == m.type = "tree"
IsBranchTokens(m) == m.type = "branch_tokens"
IsTokens(m) == m.type = "tokens"
IsTokenOptions(m) == m.type = "token_options"
IsPong(m) == m.type = "pong"

RECURSIVE ConcatTokens(_)
ConcatTokens(entries) ==
    IF entries = <<>> THEN ""
    ELSE Head(entries).token \o ConcatTokens(Tail(entries))

NotPlaceholder(e) == e # Placeholder

(***************************************************************************)
(* C1.  Linear path sampling (get_branch_tokens): for every count n >= 0   *)
(* and every pattern of oracle successes and empty results, the            *)
(* branch_tokens response carries exactly n entries, and entry i is what   *)
(* step i gave: the oracle's entry, or the placeholder when the oracle     *)
(* gave nothing.                                                           *)
(***************************************************************************)
C1_LinearLength ==
    \A s \in Sessions :
        Handled(s, "get_branch_tokens") =>
            \A k \in 1..Len(Sent(s)) :
                IsBranchTokens(Sent(s)[k]) =>
                    LET tokens == Sent(s)[k].tokens
                        calls == Calls(s)
                    IN  /\ Len(tokens) = Request(s).count
                        /\ Len(calls) = Request(s).count
                        /\ \A i \in 1..Len(tokens) :
                              tokens[i] = IF calls[i].value = <<>> THEN Placeholder
                                          ELSE calls[i].value[1]

\* a response to count = MaxCount, some steps answered and some not
C1_Witness ==
    /\ Handled(1, "get_branch_tokens")
    /\ Request(1).count = MaxCount
    /\ \E k \in 1..Len(Sent(1)) : IsBranchTokens(Sent(1)[k])
    /\ \E i, j \in 1..Len(Calls(1)) :
          Calls(1)[i].value = <<>> /\ Calls(1)[j].value # <<>>

(***************************************************************************)
(* C2.  Single-step option requests.                                       *)
(*                                                                         *)
(* As claimed (C2_PaddedEverySingleStep): for get_tokens and for           *)
(* get_options alike, the list sent back is the oracle's list padded with  *)
(* placeholders to exactly the requested count.                            *)
(*                                                                         *)
(* As amended (C2_OptionsPadded): the token_options list of get_options is *)
(* the oracle's list followed by placeholders, exactly count entries; the  *)
(* alternatives list of get_tokens is the oracle's list as returned, not   *)
(* padded, of at most n_alternatives entries.                              *)
(***************************************************************************)
PaddedTo(list, oracle, n) ==
    /\ Len(list) = n
    /\ \A i \in 1..n : list[i] = IF i <= Len(oracle) THEN oracle[i] ELSE Placeholder

C2_PaddedEverySingleStep ==
    \A s \in Sessions :
        /\ Handled(s, "get_tokens") =>
              \A k \in 1..Len(Sent(s)) :
                  IsTokens(Sent(s)[k]) =>
                      PaddedTo(Sent(s)[k].alternatives, Calls(s)[1].value,
                               Request(s).n_alternatives)
        /\ Handled(s, "get_options") =>
              \A k \in 1..Len(Sent(s)) :
                  IsTokenOptions(Sent(s)[k]) =>
                      PaddedTo(Sent(s)[k].options, Calls(s)[1].value, Request(s).count)

C2_OptionsPadded ==
    \A s \in Sessions :
        /\ Handled(s, "get_tokens") =>
              \A k \in 1..Len(Sent(s)) :
                  IsTokens(Sent(s)[k]) =>
                      /\ Sent(s)[k].alternatives = Calls(s)[1].value
                      /\ Len(Sent(s)[k].alternatives) <= Request(s).n_alternatives
        /\ Handled(s, "get_options") =>
              \A k \in 1..Len(Sent(s)) :
                  IsTokenOptions(Sent(s)[k]) =>
                      PaddedTo(Sent(s)[k].options, Calls(s)[1].value, Request(s).count)

\* get_options with count = MaxCount answered from an oracle list that is
\* not empty and shorter than count
C2_Witness ==
    /\ Handled(1, "get_options")
    /\ Request(1).count = MaxCount
    /\ Len(Sent(1)) = 1 /\ IsTokenOptions(Sent(1)[1])
    /\ Calls(1)[1].value # <<>>
    /\ Len(Calls(1)[1].value) < MaxCount

(***************************************************************************)
(* Reading a tree.                                                         *)
(***************************************************************************)
RECURSIVE Height(_)
\* the largest depth of a node below (and including) this one
Height(node) ==
    IF node.children = <<>> THEN 0
    ELSE LET hs == {Height(node.children[i]) : i \in 1..Len(node.children)}
         IN  1 + CHOOSE h \in hs : \A g \in hs : g <= h

RECURSIVE PreOrderIds(_)
RECURSIVE PreOrderIdsOf(_)
\* the ids met by a depth-first pre-order visit
PreOrderIds(node) == <<node.id>> \o PreOrderIdsOf(node.children)
PreOrderIdsOf(children) ==
    IF children = <<>> THEN <<>>
    ELSE PreOrderIds(Head(children)) \o PreOrderIdsOf(Tail(children))

StrictlyIncreasing(seq) == \A i \in 1..(Len(seq) - 1) : seq[i] < seq[i + 1]

\* the tree carried by the tree response of the last request, if any
TreeSent(s) == \E k \in 1..Len(Sent(s)) : IsTree(Sent(s)[k])
TheTree(s) == (CHOOSE m \in {Sent(s)[k] : k \in 1..Len(Sent(s))} : IsTree(m)).tree

(***************************************************************************)
(* C3.  Full-tree build: for every max_depth >= 0 and every behaviour of   *)
(* the oracle, every node of the returned tree lies at depth <= max_depth, *)
(* and no oracle call is made for a node at depth max_depth.               *)
(***************************************************************************)
C3_DepthBounded ==
    \A s \in Sessions :
        Handled(s, "build_tree") =>
            /\ \A i \in 1..Len(Calls(s)) : Calls(s)[i].depth < Request(s).max_depth
            /\ (TreeSent(s) /\ TheTree(s) # None) =>
                  Height(TheTree(s)) <= Request(s).max_depth

\* a returned tree that reaches depth max_depth = MaxTreeDepth
C3_Witness ==
    /\ Handled(1, "build_tree")
    /\ Request(1).max_depth = MaxTreeDepth
    /\ TreeSent(1) /\ TheTree(1) # None
    /\ Height(TheTree(1)) = MaxTreeDepth

(***************************************************************************)
(* C4.  Full-tree build: in the returned tree the root has id 0 and a      *)
(* depth-first pre-order visit meets strictly increasing ids (so the ids   *)
(* are pairwise distinct).                                                 *)
(***************************************************************************)
C4_IdsIncreasing ==
    \A s \in Sessions :
        (Handled(s, "build_tree") /\ TreeSent(s) /\ TheTree(s) # None) =>
            /\ TheTree(s).id = 0
            /\ StrictlyIncreasing(PreOrderIds(TheTree(s)))
            /\ Cardinality({PreOrderIds(TheTree(s))[i] :
                              i \in 1..Len(PreOrderIds(TheTree(s)))})
                  = Len(PreOrderIds(TheTree(s)))

\* a returned tree whose first child has children and a later sibling
C4_Witness ==
    /\ Handled(1, "build_tree")
    /\ TreeSent(1) /\ TheTree(1) # None
    /\ Len(TheTree(1).children) >= 2
    /\ TheTree(1).children[1].children # <<>>

(***************************************************************************)
(* C5.  A full tree build with max_depth = 0 answers with a tree that is   *)
(* exactly the root sentinel node (token "[ROOT]", probability 1.0) with   *)
(* an empty children sequence.                                             *)
(***************************************************************************)
C5_RootOnlyAtDepthZero ==
    \A s \in Sessions :
        (Handled(s, "build_tree") /\ Request(s).max_depth = 0 /\ TreeSent(s)) =>
            TheTree(s) = [id |-> 0, token |-> ROOT_TOKEN, prob |-> 1000, children |-> <<>>]

(***************************************************************************)
(* C6.  Multi-width branch sampling (get_branch_tokens_multi): the prefix  *)
(* passed to the oracle at a step is the prefix of the step before it      *)
(* followed by the token of the first alternative the oracle returned at   *)
(* that step (and by nothing when the oracle returned none).               *)
(***************************************************************************)
C6_MultiPrefixFollowsOracle ==
    \A s \in Sessions :
        Handled(s, "get_branch_tokens_multi") =>
            \A i \in 1..(Len(Calls(s)) - 1) :
                Calls(s)[i + 1].prompt =
                    Calls(s)[i].prompt \o
                        (IF Calls(s)[i].value # <<>> THEN Calls(s)[i].value[1].token ELSE "")

(***************************************************************************)
(* C7.  Linear path sampling: when the oracle returns an empty list at a   *)
(* step, the entry of that step is the placeholder, the prefix is left as  *)
(* it was, and sampling goes on with the remaining steps; the prefix used  *)
(* at each step is the request's prefix followed by the tokens of the      *)
(* earlier entries that are not the placeholder, in order.                 *)
(***************************************************************************)
\* the entries collected so far for the linear request of s
LinearTokens(s) ==
    LET answers == SelectSeq(Sent(s), IsBranchTokens)
    IN  IF answers # <<>> THEN answers[1].tokens ELSE local[s].tokens

C7_LinearPlaceholderKeepsPrefix ==
    \A s \in Sessions :
        (Handled(s, "get_branch_tokens") /\ clientOpen[s]) =>
            LET calls == Calls(s)
                tokens == LinearTokens(s)
            IN  /\ \A k \in 1..Len(calls) :
                      /\ calls[k].prompt =
                            Request(s).prompt \o
                            ConcatTokens(SelectSeq(SubSeq(tokens, 1, Min(k - 1, Len(tokens))),
                                                   NotPlaceholder))
                      /\ (~calls[k].raised /\ calls[k].value = <<>>) =>
                            /\ tokens[k] = Placeholder
                            /\ k < Len(calls) => calls[k + 1].prompt = calls[k].prompt
                /\ (SelectSeq(Sent(s), IsBranchTokens) # <<>>) =>
                      Len(calls) = Request(s).count

\* count = MaxCount >= 3: the oracle answers step 1, gives nothing at
\* step 2, answers step 3, and the response is sent
C7_Witness ==
    /\ Handled(1, "get_branch_tokens")
    /\ Request(1).count = MaxCount
    /\ SelectSeq(Sent(1), IsBranchTokens) # <<>>
    /\ Calls(1)[1].value # <<>>
    /\ Calls(1)[2].value = <<>>
    /\ Calls(1)[3].value # <<>>
    /\ Calls(1)[3].prompt = Calls(1)[2].prompt

(***************************************************************************)
(* C8.  A second build request that arrives while an earlier build of the  *)
(* session has not completed.                                              *)
(*                                                                         *)
(* As claimed (C8_BusyRejection): it is answered with a typed "busy"       *)
(* response, and no build is started for it (no status, no oracle call).   *)
(*                                                                         *)
(* As amended (C8_QueuedNotRejected): it stays unread in the connection's  *)
(* receive buffer until the earlier build has sent its result or failed,   *)
(* and is then handled as a build of its own (status first); no frame is   *)
(* lost, and no "busy" message is ever sent.                               *)
(***************************************************************************)
\* the request being answered is a build request that arrived during a build
LateBuildRequest(s) ==
    /\ log[s] # <<>>
    /\ log[s][1].data.json = "object"
    /\ ActionOf(log[s][1].data.body) \in BuildActions
    /\ log[s][1].during_build

C8_BusyRejection ==
    \A s \in Sessions :
        LateBuildRequest(s) =>
            /\ Calls(s) = <<>>
            /\ \A k \in 1..Len(Sent(s)) : Sent(s)[k].type = "busy"

C8_QueuedNotRejected ==
    \A s \in Sessions :
        /\ \A k \in 1..Len(Sent(s)) : Sent(s)[k].type # "busy"
        /\ nsent[s] = nrecv[s] + Len(inbox[s])
        /\ (pc[s] \in BuildActions) =>
              \A i \in 1..Len(inbox[s]) : inbox[s][i].seq > log[s][1].seq
        /\ (LateBuildRequest(s) /\ clientOpen[s]) =>
              /\ Len(Sent(s)) >= 1
              /\ IsStatus(Sent(s)[1])

\* a build request that arrived during a build has been answered with its
\* own status and result
C8_Witness ==
    /\ LateBuildRequest(1)
    /\ Len(Sent(1)) = 2
    /\ IsStatus(Sent(1)[1])
    /\ IsTree(Sent(1)[2]) \/ IsBranchTokens(Sent(1)[2])
    /\ Calls(1) # <<>>

(***************************************************************************)
(* C9.  Within one session requests are handled in arrival order and one   *)
(* at a time: the k-th frame received is the k-th frame sent, at most one  *)
(* request is being handled per session in every reachable state, and a    *)
(* frame is received only when the handling of the one before it has       *)
(* ended, whatever the other sessions do.                                  *)
(***************************************************************************)
C9_OneAtATime ==
    \A s \in Sessions :
        /\ handling[s] \in {0, 1}
        /\ handling[s] = 1 <=> pc[s] \notin {"receive", "disconnected", "closed"}
        /\ log[s] # <<>> => log[s][1].seq = nrecv[s]
        /\ \A i \in 1..Len(inbox[s]) : inbox[s][i].seq = nrecv[s] + i

C9_InOrder ==
    [][\A s \in Sessions :
          nrecv'[s] # nrecv[s] =>
              /\ nrecv'[s] = nrecv[s] + 1
              /\ pc[s] = "receive"
              /\ handling[s] = 0
              /\ log'[s][1].seq = nrecv'[s]
              /\ log'[s][1].data = inbox[s][1].data]_vars

C9_Sequential == []C9_OneAtATime /\ C9_InOrder

\* session 1 has answered a second request that arrived while it was
\* building for the first
C9_Witness ==
    /\ nrecv[1] = 2
    /\ log[1][1].during_build
    /\ Sent(1) # <<>>
    /\ pc[1] = "receive"

(***************************************************************************)
(* C10.  For each build request on a connection that stays open, the       *)
(* session sends a status message before the first oracle call, then      *)
(* exactly one result message ("tree" for build_tree, "branch_tokens" for  *)
(* the two sampling actions) after the last oracle call, and only then is  *)
(* back at receive; nothing else is sent in between.  The only other end   *)
(* of a build is the server closing the connection after an exception (an  *)
(* oracle call raised, or the count is not an integer), and then nothing   *)
(* more is sent or received.                                               *)
(***************************************************************************)
ResultType(action) == IF action = "build_tree" THEN "tree" ELSE "branch_tokens"

IsResultOf(e, action) == IsSend(e) /\ e.msg.type = ResultType(action)

C10_StatusThenOneResult ==
    \A s \in Sessions :
        (clientOpen[s] /\ log[s] # <<>> /\ log[s][1].data.json = "object"
            /\ ActionOf(Request(s)) \in BuildActions) =>
            LET action == ActionOf(Request(s))
                n == Len(log[s])
            IN  /\ n >= 2
                /\ IsSend(log[s][2]) /\ IsStatus(log[s][2].msg)
                /\ \A i \in 3..n :
                      \/ IsCall(log[s][i])
                      \/ i = n /\ IsResultOf(log[s][i], action)
                /\ pc[s] \in {action, "receive", "closed"}
                /\ pc[s] = "receive" <=> IsResultOf(log[s][n], action)
                /\ pc[s] = "closed" <=>
                      \/ IsCall(log[s][n]) /\ log[s][n].raised
                      \/ n = 2 /\ Mistyped(Request(s), "count")

\* an open connection whose build made two oracle calls and then sent its
\* result, with the next request already waiting
C10_Witness ==
    /\ clientOpen[1]
    /\ Handled(1, "get_branch_tokens_multi")
    /\ Len(Calls(1)) = 2
    /\ IsResultOf(log[1][Len(log[1])], "get_branch_tokens_multi")
    /\ pc[1] = "receive"
    /\ inbox[1] # <<>>

(***************************************************************************)
(* C11.  A ping that arrives while a build for the same session is in      *)
(* flight.                                                                 *)
(*                                                                         *)
(* As claimed (C11_PingNotBlockedByBuild): it is answered without waiting  *)
(* for the build to complete, so when a build has completed no ping that   *)
(* arrived during it is still unread.                                      *)
(*                                                                         *)
(* As amended (C11_PingWaitsForBuild): no pong is sent while a build is in *)
(* flight; the ping is read after the build has ended, and a ping read on  *)
(* an open connection is answered with exactly one pong and no oracle      *)
(* call.                                                                   *)
(***************************************************************************)
IsLatePing(frame) ==
    /\ frame.data.json = "object"
    /\ ActionOf(frame.data.body) = "ping"
    /\ frame.during_build

BuildCompleted(s) ==
    /\ log[s] # <<>>
    /\ log[s][1].data.json = "object"
    /\ ActionOf(Request(s)) \in BuildActions
    /\ pc[s] = "receive"

C11_PingNotBlockedByBuild ==
    \A s \in Sessions :
        BuildCompleted(s) => \A i \in 1..Len(inbox[s]) : ~IsLatePing(inbox[s][i])

C11_PingWaitsForBuild ==
    \A s \in Sessions :
        /\ pc[s] \in BuildActions =>
              /\ \A k \in 1..Len(Sent(s)) : ~IsPong(Sent(s)[k])
              /\ \A i \in 1..Len(inbox[s]) : inbox[s][i].seq = nrecv[s] + i
        /\ Handled(s, "ping") =>
              /\ Calls(s) = <<>>
              /\ clientOpen[s] => (Sent(s) = <<[type |-> "pong"]>> /\ pc[s] = "receive")

\* a ping that arrived during a build has been answered, after the build
C11_Witness ==
    /\ Handled(1, "ping")
    /\ log[1][1].during_build
    /\ clientOpen[1]
    /\ Sent(1) = <<[type |-> "pong"]>>

(***************************************************************************)
(* C12.  A malformed inbound message: text that is not JSON, or JSON that  *)
(* is not an object.                                                       *)
(*                                                                         *)
(* As claimed (C12_MalformedAnsweredWithError): it is answered with a      *)
(* typed error message and the connection stays open, the handler back at  *)
(* receive for the later requests.                                         *)
(*                                                                         *)
(* As amended (C12_MalformedClosesConnection): nothing is sent for it and  *)
(* no oracle call is made; the handler closes the connection and ends, so  *)
(* the requests behind it stay unread for ever.                            *)
(***************************************************************************)
Malformed(s) == log[s] # <<>> /\ log[s][1].data.json # "object"

Unrecognised(s) ==
    /\ log[s] # <<>>
    /\ log[s][1].data.json = "object"
    /\ ActionOf(Request(s)) \notin KnownActions

C13_UnknownActionIgnored ==
    \A s \in Sessions :
        Unrecognised(s) =>
            /\ Calls(s) = <<>>
            /\ Sent(s) = <<>>
            /\ local[s] = LocalInit
            /\ worker[s] = WorkerIdle
            /\ handling[s] = 0
            /\ pc[s] \in {"receive", "disconnected"}
            /\ clientOpen[s] => pc[s] = "receive"
            /\ nsent[s] = nrecv[s] + Len(inbox[s])

\* session 1 has skipped a request without an action and has the next one
\* to read
C13_Witness ==
    /\ Unrecognised(1)
    /\ ActionOf(Request(1)) = "null"
    /\ clientOpen[1]
    /\ inbox[1] # <<>>
    /\ pc[1] = "receive"

(***************************************************************************)
(* C14.  get_token_alternatives: each kind of failure (transport failure   *)
(* or timeout, non-success status, a stream without a matching event, an   *)
(* event payload that is not JSON or whose completion_probabilities is     *)
(* empty) gives the return value [] and no exception to the caller.        *)
(***************************************************************************)
FailureKinds == {"transport", "http_status", "no_event", "bad_json", "empty_probs"}

\* the calls of the request whose oracle reply is in the log
KeptCalls(s) == SelectSeq(Calls(s), LAMBDA c : c.reply # NotKept)

C14_FailuresReturnEmpty ==
    \A s \in Sessions :
        \A k \in 1..Len(KeptCalls(s)) :
            LET c == KeptCalls(s)[k]
            IN  c.reply.kind \in FailureKinds => (~c.raised /\ c.value = <<>>)

(***************************************************************************)
(* C15.  No failure of one oracle call is fatal: for every build or option *)
(* request on an open connection and every combination of oracle failures  *)
(* during it, no call raises into the handler, the handler is never ended  *)
(* by it, and once the handling is over the typed result has been sent and *)
(* the handler is at receive.                                              *)
(***************************************************************************)
OracleActions == BuildActions \cup {"get_tokens", "get_options"}

ResultTypeOf(action) ==
    CASE action = "build_tree" -> "tree"
      [] action \in {"get_branch_tokens", "get_branch_tokens_multi"} -> "branch_tokens"
      [] action = "get_tokens" -> "tokens"
      [] action = "get_options" -> "token_options"

C15_OracleFailureNotFatal ==
    \A s \in Sessions :
        (clientOpen[s] /\ log[s] # <<>> /\ log[s][1].data.json = "object"
            /\ ActionOf(Request(s)) \in OracleActions) =>
            /\ \A k \in 1..Len(Calls(s)) : ~Calls(s)[k].raised
            /\ pc[s] # "closed"
            /\ pc[s] = "receive" =>
                  /\ Sent(s) # <<>>
                  /\ Sent(s)[Len(Sent(s))].type = ResultTypeOf(ActionOf(Request(s)))

(***************************************************************************)
(* C16.  extract_alternatives for width >= 1: the first entry of the       *)
(* result is the oracle's selected token with probability e^logprob; the   *)
(* entries after it are the oracle's top alternatives in the order given,  *)
(* every one whose token equals the selected token skipped; the result is  *)
(* cut to at most width entries.                                           *)
(***************************************************************************)
\* the entries of top whose token is not the selected one, in order
RECURSIVE WithoutSelected(_, _)
WithoutSelected(top, selected) ==
    IF top = <<>> THEN <<>>
    ELSE LET rest == WithoutSelected(Tail(top), selected)
         IN  IF Head(top).token = selected THEN rest
             ELSE <<[token |-> Head(top).token, prob |-> Prob(Head(top).logprob)]>> \o rest

Over(s) == pc[s] \in {"disconnected", "closed"}

C18_EventLoopNeverBlocked ==
    \A s \in Sessions :
        (pc[s] = "receive" /\ inbox[s] # <<>>) => loop = "free"

(***************************************************************************)
(* C19.  Side-publish is optional and not fatal.  Without a broker client  *)
(* (none configured, or the connection at startup failed) get_options      *)
(* publishes nothing; with one, a publish that fails is swallowed and      *)
(* publishes nothing.  In both cases the request is processed as after a   *)
(* publish that worked: one oracle call for the prompt and the count, the  *)
(* token_options answer built from what that call returned, the handler    *)
(* back at receive; the handler is ended only by an oracle call that       *)
(* raised, never by the publish.                                           *)
(***************************************************************************)
IsPublish(e) == e.ev = "publish"

C19_PublishNotFatal ==
    \A s \in Sessions :
        Handled(s, "get_options") =>
            LET request == Request(s)
                pub == log[s][2]
            IN  /\ Len(log[s]) >= 2 /\ IsPublish(pub)
                /\ ~mqtt_client => (pub.outcome = "none" /\ published = <<>>)
                /\ mqtt_client => pub.outcome \in PublishOutcomes
                /\ pub.outcome = "failed" => published = <<>>
                /\ pub.outcome = "ok" => published = <<request.prompt>>
                /\ pc[s] \in {"get_options", "receive", "closed"}
                /\ pc[s] = "get_options" <=> Len(log[s]) = 2
                /\ Len(log[s]) >= 3 =>
                      /\ IsCall(log[s][3])
                      /\ log[s][3].prompt = request.prompt
                      /\ log[s][3].n = request.count
                      /\ pc[s] = "closed" <=> log[s][3].raised
                      /\ pc[s] = "receive" <=>
                            log[s] = <<log[s][1], pub, log[s][3],
                                       [ev |-> "send",
                                        msg |-> [type |-> "token_options",
                                                 options |-> PySlice(Pad(log[s][3].value,
                                                                         request.count),
                                                                     request.count)]]>>

\* a get_options request whose publish failed has been answered
C19_Witness ==
    /\ Handled(1, "get_options")
    /\ mqtt_client
    /\ log[1][2].outcome = "failed"
    /\ published = <<>>
    /\ pc[1] = "receive"
    /\ Len(Sent(1)) = 1
    /\ IsTokenOptions(Sent(1)[1])
    /\ Len(Sent(1)[1].options) = MaxCount

(***************************************************************************)
(* C20.  The request that triggers the side-publish of the prompt          *)
(* (get_options).                                                          *)
(*                                                                         *)
(* As claimed (C20_PromptUpdateFastPath): a fast path that makes no oracle *)
(* call, never waits for one, and sends no message.                        *)
(*                                                                         *)
(* As amended (C20_OptionsAsksOracle): after the publish the request makes *)
(* exactly one oracle call and waits for it; when the call returns, one    *)
(* token_options message is sent and nothing else (no status message, the  *)
(* session is never in a build action); when the call raises, nothing is   *)
(* sent and the handler closes the connection.                             *)
(***************************************************************************)
C20_PromptUpdateFastPath ==
    \A s \in Sessions :
        Handled(s, "get_options") =>
            /\ Calls(s) = <<>>
            /\ Sent(s) = <<>>
            /\ pc[s] # "get_options"

C20_OptionsAsksOracle ==
    \A s \in Sessions :
        Handled(s, "get_options") =>
            /\ pc[s] \notin BuildActions
            /\ \A k \in 1..Len(Sent(s)) : ~IsStatus(Sent(s)[k])
            /\ Len(Calls(s)) = (IF pc[s] = "get_options" THEN 0 ELSE 1)
            /\ pc[s] = "get_options" => Sent(s) = <<>>
            /\ pc[s] = "closed" => (Calls(s)[1].raised /\ Sent(s) = <<>>)
            /\ (pc[s] = "receive" /\ clientOpen[s]) =>
                  /\ ~Calls(s)[1].raised
                  /\ Len(Sent(s)) = 1
                  /\ IsTokenOptions(Sent(s)[1])

\* a get_options request has published its prompt, called the oracle and
\* sent its options
C20_Witness ==
    /\ Handled(1, "get_options")
    /\ published = <<Request(1).prompt>>
    /\ Len(Calls(1)) = 1
    /\ Calls(1)[1].value # <<>>
    /\ Len(Sent(1)) = 1
    /\ IsTokenOptions(Sent(1)[1])

(***************************************************************************)
(* C21.  Full-tree build: the children of the root of a returned tree.     *)
(*                                                                         *)
(* As claimed (C21_RootWidth): their number equals the branching width     *)
(* drawn for depth 0, whatever the oracle does.                            *)
(*                                                                         *)
(* As amended (C21_RootChildrenFromOracle): their number equals the number *)
(* of alternatives the oracle client returned for the root's call, which   *)
(* is at least 1 and at most the width drawn for depth 0.                  *)
(***************************************************************************)
HasTree(s) == Handled(s, "build_tree") /\ TreeSent(s) /\ TheTree(s) # None

RECURSIVE NodesAt(_, _, _)
NodesAt(node, prefix, depth) ==
    {[node |-> node, prefix |-> prefix, depth |-> depth]}
    \cup UNION {NodesAt(node.children[i], prefix \o node.children[i].token, depth + 1) :
                  i \in 1..Len(node.children)}

TreeNodes(s) == NodesAt(TheTree(s), Request(s).prompt, 0)

(***************************************************************************)
(* C22.  Full-tree build truncation: whenever the oracle returns no        *)
(* alternatives for a node, the root included, the build does not fail and *)
(* the node is in the returned tree with an empty children sequence.       *)
(***************************************************************************)
C22_EmptyNodeKept ==
    \A s \in Sessions :
        (Handled(s, "build_tree") /\ TreeSent(s)) =>
            \A k \in 1..Len(Calls(s)) :
                LET c == Calls(s)[k]
                IN  (~c.raised /\ c.value = <<>>) =>
                        /\ TheTree(s) # None
                        /\ \E t \in TreeNodes(s) :
                              /\ t.prefix = c.prompt
                              /\ t.depth = c.depth
                              /\ t.node.children = <<>>

(***************************************************************************)
(* C23.  Full-tree build: the prefix sent to the oracle for a node is the  *)
(* request's prefix followed by the tokens on the path from the root to    *)
(* the node, and the alternatives returned for a node at depth             *)
(* d < max_depth become its children, one each, in the oracle's order,     *)
(* with the alternative's token and probability.                           *)
(***************************************************************************)
C23_ChildrenAreAlternatives ==
    \A s \in Sessions :
        HasTree(s) =>
            /\ Calls(s)[1].prompt = Request(s).prompt
            /\ \A k \in 1..Len(Calls(s)) :
                  LET c == Calls(s)[k]
                  IN  c.value # <<>> =>
                          \E t \in TreeNodes(s) :
                              /\ t.prefix = c.prompt
                              /\ t.depth = c.depth
                              /\ Len(t.node.children) = Len(c.value)
                              /\ \A i \in 1..Len(c.value) :
                                    /\ t.node.children[i].token = c.value[i].token
                                    /\ t.node.children[i].prob = c.value[i].prob
            /\ \A t \in TreeNodes(s) :
                  t.depth < Request(s).max_depth =>
                      \E k \in 1..Len(Calls(s)) :
                          /\ Calls(s)[k].prompt = t.prefix
                          /\ Calls(s)[k].depth = t.depth
                          /\ Len(Calls(s)[k].value) = Len(t.node.children)

\* a tree of depth 2 whose root has two children, the first of them
\* expanded
C23_Witness ==
    /\ HasTree(1)
    /\ Len(Calls(1)) >= 3
    /\ Len(TheTree(1).children) = 2
    /\ TheTree(1).children[1].children # <<>>
    /\ TheTree(1).children[2].children = <<>>

(***************************************************************************)
(* C24.  Multi-width branch sampling, shape of the output: for widths      *)
(* w1..wk >= 0 the branch_tokens list is the concatenation, in step order, *)
(* of one block of exactly wi entries per step (what the oracle returned,  *)
(* then placeholders); its length is w1 + ... + wk, the total announced in *)
(* the status message; a step of width 0 makes no oracle call and adds no  *)
(* entry.                                                                  *)
(***************************************************************************)
\* the widths > 0 of a width list, in order
Positive(branches) == SelectSeq(branches, LAMBDA w : w > 0)

\* the block of a step of width w whose call returned value
Block(value, w) ==
    [i \in 1..w |-> IF i <= Len(value) THEN value[i] ELSE Placeholder]

RECURSIVE Blocks(_)
Blocks(calls) ==
    IF calls = <<>> THEN <<>>
    ELSE Block(Head(calls).value, Head(calls).n) \o Blocks(Tail(calls))

MultiAnswered(s) ==
    /\ Handled(s, "get_branch_tokens_multi")
    /\ SelectSeq(Sent(s), IsBranchTokens) # <<>>

C24_MultiShape ==
    \A s \in Sessions :
        Handled(s, "get_branch_tokens_multi") =>
            LET widths == Positive(Request(s).branches)
                calls == Calls(s)
            IN  /\ Len(calls) <= Len(widths)
                /\ \A j \in 1..Len(calls) : calls[j].n = widths[j]
                /\ calls # <<>> => calls[1].prompt = Request(s).prompt
                /\ MultiAnswered(s) =>
                      LET tokens == SelectSeq(Sent(s), IsBranchTokens)[1].tokens
                      IN  /\ Len(calls) = Len(widths)
                          /\ tokens = Blocks(calls)
                          /\ Len(tokens) = PySum(Request(s).branches)
                          /\ IsStatus(Sent(s)[1])
                          /\ Sent(s)[1].total = Len(tokens)
                          /\ Sent(s)[1].branch_points = Len(Request(s).branches)
                /\ \A j \in 2..Len(calls) :
                      calls[j].prompt =
                          calls[j - 1].prompt \o Block(calls[j - 1].value, calls[j - 1].n)[1].token

\* widths 0 and MaxCount: one call, answered with fewer entries than asked
C24_Witness ==
    /\ MultiAnswered(1)
    /\ Request(1).branches = <<0, MaxCount>>
    /\ Len(Calls(1)) = 1
    /\ Calls(1)[1].value # <<>>
    /\ Len(Calls(1)[1].value) < MaxCount
    /\ Len(Sent(1)[2].tokens) = MaxCount

(***************************************************************************)
(* C26.  Id gaps of build_token_tree: the recursive call for a child with  *)
(* id k takes id k + 1 for a node that is thrown away, so for every node   *)
(* below the root that has children, k + 1 is the id of no node and the    *)
(* first child has id k + 2.  The next id returned with a tree of N nodes, *)
(* E of them expanded nodes below the root, is N + E, and the ids are      *)
(* 0..N-1 exactly when E = 0.                                              *)
(***************************************************************************)
BuildDone(s) == pc[s] = "build_tree" /\ worker[s].done /\ worker[s].tree # None

C26_IdGaps ==
    \A s \in Sessions :
        BuildDone(s) =>
            LET tree == worker[s].tree
                nodes == {t.node : t \in NodesAt(tree, "", 0)}
                ids == {n.id : n \in nodes}
                expanded == {n \in nodes : n # tree /\ n.children # <<>>}
                N == Len(PreOrderIds(tree))
                E == Cardinality(expanded)
            IN  /\ Cardinality(ids) = N
                /\ \A n \in expanded :
                      /\ (n.id + 1) \notin ids
                      /\ n.children[1].id = n.id + 2
                /\ tree.children # <<>> => tree.children[1].id = 1
                /\ worker[s].next_id = N + E
                /\ (E = 0) <=> (ids = 0..(N - 1))

\* a finished build with two expanded nodes below the root
C26_Witness ==
    /\ BuildDone(1)
    /\ Len(worker[1].tree.children) = 2
    /\ worker[1].tree.children[1].children # <<>>
    /\ worker[1].tree.children[2].children # <<>>

(***************************************************************************)
(* C27.  Multi-width branch sampling pads the list before it advances the  *)
(* prefix: the prefix of the next call is the prefix of this call followed *)
(* by the token of the first entry of the padded block, so after a step    *)
(* for which the oracle returned nothing the placeholder token "?" is in   *)
(* the prefix of every later call.  Linear sampling leaves the prefix      *)
(* unchanged at such a step.                                               *)
(***************************************************************************)
\* the first entries of the padded blocks of the calls
RECURSIVE FirstOfBlocks(_)
FirstOfBlocks(calls) ==
    IF calls = <<>> THEN <<>>
    ELSE <<Block(Head(calls).value, Head(calls).n)[1]>> \o FirstOfBlocks(Tail(calls))

C27_PlaceholderEntersPrefix ==
    \A s \in Sessions :
        /\ Handled(s, "get_branch_tokens_multi") =>
              \A j \in 1..Len(Calls(s)) :
                  /\ Calls(s)[j].prompt =
                        Request(s).prompt \o
                            ConcatTokens(FirstOfBlocks(SubSeq(Calls(s), 1, j - 1)))
                  /\ (j > 1 /\ ~Calls(s)[j - 1].raised /\ Calls(s)[j - 1].value = <<>>) =>
                        Calls(s)[j].prompt = Calls(s)[j - 1].prompt \o "?"
        /\ Handled(s, "get_branch_tokens") =>
              \A j \in 2..Len(Calls(s)) :
                  Calls(s)[j - 1].value = <<>> =>
                      Calls(s)[j].prompt = Calls(s)[j - 1].prompt

\* the oracle returned nothing at the first of two steps and "a" at the
\* second: the second call is made on "p?"
C27_Witness ==
    /\ MultiAnswered(1)
    /\ Len(Calls(1)) = 2
    /\ Calls(1)[1].value = <<>>
    /\ Calls(1)[2].prompt = Request(1).prompt \o "?"
    /\ Calls(1)[2].value # <<>>
    /\ Calls(1)[2].value[1].token = "a"

(***************************************************************************)
(* C25.  Termination of the full-tree build: for every max_depth and every *)
(* behaviour of the oracle in which each call returns, the build makes at  *)
(* most one oracle call per node at depth < max_depth, so at most          *)
(* 1 + W + ... + W^(max_depth-1) calls, W being the largest width          *)
(* (TOKENS_PER_NODE[2]: 12 in the source), and the request then reaches    *)
(* its tree message.  The build ends otherwise only when a call raises.    *)
(***************************************************************************)
RECURSIVE Pow(_, _)
Pow(b, e) == IF e <= 0 THEN 1 ELSE b * Pow(b, e - 1)

\* 1 + b + ... + b^(e-1)
RECURSIVE SumPow(_, _)
SumPow(b, e) == IF e <= 0 THEN 0 ELSE Pow(b, e - 1) + SumPow(b, e - 1)

C25_CallsBounded ==
    \A s \in Sessions :
        Handled(s, "build_tree") =>
            LET calls == Calls(s)
                max_depth == Request(s).max_depth
            IN  /\ Len(calls) <= SumPow(TOKENS_PER_NODE[2], max_depth)
                /\ \A d \in 0..(max_depth - 1) :
                      Cardinality({k \in 1..Len(calls) : calls[k].depth = d})
                          <= Pow(TOKENS_PER_NODE[2], d)
                /\ \A j, k \in 1..Len(calls) :
                      (j # k) => (calls[j].prompt # calls[k].prompt)
                /\ pc[s] = "closed" => calls[Len(calls)].raised
                /\ pc[s] = "receive" => TreeSent(s)

C25_BuildTerminates ==
    /\ []C25_CallsBounded
    /\ \A s \in Sessions : (pc[s] = "build_tree") ~> (pc[s] \in {"receive", "closed"})

\* a build of depth MaxTreeDepth that made the largest number of calls and
\* sent its tree
C25_Witness ==
    /\ Handled(1, "build_tree")
    /\ Request(1).max_depth = MaxTreeDepth
    /\ Len(Calls(1)) = SumPow(TOKENS_PER_NODE[2], MaxTreeDepth)
    /\ pc[1] = "receive"
    /\ TreeSent(1)

(***************************************************************************)
(* C28.  Requests are stateless and sessions are isolated: what the server *)
(* sends for a request, and the prefix of each oracle call it makes for    *)
(* it, is a function of the request's fields, of what the oracle returned  *)
(* to the calls made for it and, for the full tree, of the widths drawn.   *)
(* Nothing of the session's earlier requests or of the other session       *)
(* enters: the function below is given neither.                            *)
(***************************************************************************)
\* the values the calls returned, in order
ValuesOf(calls) == [k \in 1..Len(calls) |-> calls[k].value]

\* build_token_tree after its first calls returned these values
RECURSIVE WorkerAfter(_, _, _)
WorkerAfter(prompt, max_depth, values) ==
    IF values = <<>> THEN StartBuild(prompt, max_depth)
    ELSE LET before == WorkerAfter(prompt, max_depth, SubSeq(values, 1, Len(values) - 1))
         IN  IF before.done THEN before
             ELSE AfterOracle(before, max_depth, values[Len(values)])

\* the tokens of the entries that are not placeholders of a linear run
RECURSIVE LinearPrefix(_)
LinearPrefix(values) ==
    IF values = <<>> THEN ""
    ELSE (IF Head(values) = <<>> THEN "" ELSE Head(values)[1].token)
             \o LinearPrefix(Tail(values))

\* the prefix and the width of the next oracle call of a request, given its
\* action, its fields and the calls made so far; NoCall when there is none
NextCallOf(request, calls) ==
    LET action == ActionOf(request)
        values == ValuesOf(calls)
        prompt == Get(request, "prompt", DEFAULT_PROMPT)
    IN  CASE action = "get_tokens" ->
                 IF calls = <<>>
                 THEN [prompt |-> Get(request, "prompt", ""),
                       n |-> Get(request, "n_alternatives", 5)]
                 ELSE NoCall
          [] action = "get_options" ->
                 IF calls = <<>>
                 THEN [prompt |-> prompt, n |-> Get(request, "count", 5)]
                 ELSE NoCall
          [] action = "get_branch_tokens" ->
                 IF Len(calls) < Get(request, "count", 100)
                 THEN [prompt |-> prompt \o LinearPrefix(values), n |-> 1]
                 ELSE NoCall
          [] action = "get_branch_tokens_multi" ->
                 LET widths == Positive(Get(request, "branches", <<>>))
                 IN  IF Len(calls) < Len(widths)
                     THEN [prompt |-> prompt \o ConcatTokens(FirstOfBlocks(calls)),
                           n |-> widths[Len(calls) + 1]]
                     ELSE NoCall
          [] action = "build_tree" ->
                 LET w == WorkerAfter(prompt, Get(request, "max_depth", MAX_DEPTH), values)
                 IN  IF w.done THEN NoCall
                     \* the width is drawn, not computed
                     ELSE [prompt |-> w.pending.prompt, n |-> 0]
          [] OTHER -> NoCall

\* the messages sent for a request once these calls have returned
MessagesOf(request, calls) ==
    LET action == ActionOf(request)
        values == ValuesOf(calls)
        prompt == Get(request, "prompt", DEFAULT_PROMPT)
        over == NextCallOf(request, calls) = NoCall
    IN  CASE action = "get_tokens" ->
                 IF over
                 THEN <<[type |-> "tokens", prompt |-> Get(request, "prompt", ""),
                         alternatives |-> values[1]]>>
                 ELSE <<>>
          [] action = "get_options" ->
                 IF over
                 THEN <<[type |-> "token_options",
                         options |-> Block(values[1], Get(request, "count", 5))]>>
                 ELSE <<>>
          [] action = "get_branch_tokens" ->
                 <<[type |-> "status", fetching |-> Get(request, "count", 100)]>>
                 \o (IF over
                     THEN <<[type |-> "branch_tokens",
                             tokens |-> [k \in 1..Len(values) |-> BranchEntry(values[k])]]>>
                     ELSE <<>>)
          [] action = "get_branch_tokens_multi" ->
                 <<[type |-> "status",
                    branch_points |-> Len(Get(request, "branches", <<>>)),
                    total |-> PySum(Get(request, "branches", <<>>))]>>
                 \o (IF over
                     THEN <<[type |-> "branch_tokens", tokens |-> Blocks(calls)]>>
                     ELSE <<>>)
          [] action = "build_tree" ->
                 <<[type |-> "status", message |-> "Building token tree..."]>>
                 \o (IF over
                     THEN <<[type |-> "tree", prompt |-> prompt,
                             tree |-> WorkerAfter(prompt,
                                                  Get(request, "max_depth", MAX_DEPTH),
                                                  values).tree]>>
                     ELSE <<>>)
          [] action = "ping" -> <<[type |-> "pong"]>>
          [] OTHER -> <<>>

IsPrefixOf(a, b) == Len(a) <= Len(b) /\ a = SubSeq(b, 1, Len(a))

\* the calls that returned (a call that raised is the last one)
ReturnedCalls(s) == SelectSeq(Calls(s), LAMBDA c : ~c.raised)

C28_Stateless ==
    \A s \in Sessions :
        (log[s] # <<>> /\ log[s][1].data.json = "object") =>
            LET request == Request(s)
                calls == Calls(s)
                returned == ReturnedCalls(s)
            IN  /\ \A j \in 1..Len(calls) :
                      LET expected == NextCallOf(request, SubSeq(calls, 1, j - 1))
                      IN  /\ j > 1 => ~calls[j - 1].raised
                          /\ expected # NoCall
                          /\ calls[j].prompt = expected.prompt
                          /\ ActionOf(request) # "build_tree" => calls[j].n = expected.n
                /\ IsPrefixOf(Sent(s), MessagesOf(request, returned))
                /\ (pc[s] = "receive" /\ clientOpen[s]) =>
                      /\ Sent(s) = MessagesOf(request, returned)
                      /\ NextCallOf(request, returned) = NoCall
                      /\ local[s] = LocalInit
                      /\ worker[s] = WorkerIdle

\* the second request of session 1 is a linear run of two steps: it starts
\* from the request's own prefix and is answered
C28_Witness ==
    /\ nrecv[1] = 2
    /\ Handled(1, "get_branch_tokens")
    /\ pc[1] = "receive"
    /\ clientOpen[1]
    /\ Len(Calls(1)) = 2
    /\ Calls(1)[1].prompt = "p"
    /\ Calls(1)[2].prompt = "pa"
    /\ Len(Sent(1)) = 2

(***************************************************************************)
(* C29.  Any exception in the handler other than a client disconnect ends  *)
(* the session: text that is not JSON, JSON that is not an object, a count *)
(* that is not an integer, an exception that escapes the oracle client.    *)
(* Nothing is sent for the request after the exception, neither a result   *)
(* nor an error message, so a status already sent is the last message; the *)
(* handler closes the connection and receives no further request.          *)
(***************************************************************************)
LastCallRaised(s) == Calls(s) # <<>> /\ Calls(s)[Len(Calls(s))].raised

WrongType(s) == Handled(s, "get_branch_tokens") /\ Mistyped(Request(s), "count")

C29_ClosedOnException ==
    \A s \in Sessions :
        /\ (Malformed(s) \/ LastCallRaised(s)) => pc[s] = "closed"
        \* the status send comes first and can observe a disconnect
        /\ WrongType(s) => pc[s] \in {"closed", "disconnected"}
        /\ (WrongType(s) /\ clientOpen[s]) => pc[s] = "closed"
        /\ (pc[s] = "closed" /\ clientOpen[s]) =>
              Malformed(s) \/ LastCallRaised(s) \/ WrongType(s)
        /\ pc[s] = "closed" =>
              /\ Len(Sent(s)) <= 1
              /\ \A k \in 1..Len(Sent(s)) : IsStatus(Sent(s)[k])
              /\ Sent(s) # <<>> => ActionOf(Request(s)) \in BuildActions
              /\ handling[s] = 0
              /\ worker[s] = WorkerIdle
              /\ nrecv[s] = log[s][1].seq
              /\ nsent[s] = nrecv[s] + Len(inbox[s])

C29_ExceptionEndsSession ==
    /\ []C29_ClosedOnException
    /\ [][\A s \in Sessions :
             pc[s] = "closed" =>
                 /\ pc'[s] = "closed"
                 /\ nrecv'[s] = nrecv[s]
                 /\ Sent(s)' = Sent(s)
                 /\ Calls(s)' = Calls(s)]_vars

\* a count that is not an integer: the status went out, the connection is
\* closed by the server with the client still there, and a later request
\* stays unread
C29_Witness ==
    /\ WrongType(1)
    /\ clientOpen[1]
    /\ pc[1] = "closed"
    /\ Len(Sent(1)) = 1
    /\ IsStatus(Sent(1)[1])
    /\ Calls(1) = <<>>
    /\ inbox[1] # <<>>

(***************************************************************************)
(* C30.  Exact width of extract_alternatives: for a width n >= 1, when the *)
(* oracle lists at least n top alternatives whose tokens are pairwise      *)
(* distinct, the result has exactly n entries, whether or not the selected *)
(* token is among the first n of them.  In every case the selected token   *)
(* is in the result exactly once, at position 0, and the alternatives that *)
(* are not the selected token are kept as listed, repetitions included.    *)
(***************************************************************************)
DistinctTokens(top) ==
    \A i, j \in 1..Len(top) : (i # j) => (top[i].token # top[j].token)

C30_ExactWidth ==
    \A s \in Sessions :
        \A k \in 1..Len(KeptCalls(s)) :
            LET c == KeptCalls(s)[k]
                td == c.reply.token_data
                first == PySlice(td.top_logprobs, c.n)
                others == WithoutSelected(first, td.token)
            IN  (c.reply.kind = "ok" /\ c.n >= 1) =>
                    /\ (Len(td.top_logprobs) >= c.n /\ DistinctTokens(td.top_logprobs)) =>
                          Len(c.value) = c.n
                    /\ c.value # <<>>
                    /\ {i \in 1..Len(c.value) : c.value[i].token = td.token} = {1}
                    /\ Len(c.value) = Min(c.n, 1 + Len(others))
                    /\ Tail(c.value) = SubSeq(others, 1, Len(c.value) - 1)

\* width 2, selected "a", top alternatives "b", "?", "a": the selected
\* token is not among the first two and the result has two entries
C30_Witness ==
    /\ Handled(1, "get_tokens")
    /\ Len(KeptCalls(1)) = 1
    /\ KeptCalls(1)[1].n = 2
    /\ KeptCalls(1)[1].reply.token_data.token = "a"
    /\ Len(KeptCalls(1)[1].reply.token_data.top_logprobs) = 3
    /\ KeptCalls(1)[1].reply.token_data.top_logprobs[1].token = "b"
    /\ KeptCalls(1)[1].reply.token_data.top_logprobs[2].token = "?"
    /\ KeptCalls(1)[1].reply.token_data.top_logprobs[3].token = "a"
    /\ Len(KeptCalls(1)[1].value) = 2
    /\ Sent(1) # <<>>

====
